---------------------------- MODULE Spec2Model ----------------------------
(***************************************************************************)
(* Event-driven coordination of the taiko-client roles.                    *)
(*                                                                         *)
(*   Driver (src/unnamed/part_000): the event loop that coalesces L1 head  *)
(*   notifications into doSync passes through the single-slot syncNotify   *)
(*   channel.                                                              *)
(*                                                                         *)
(*   Prover (src/prover/prover.go): the event loop, proveOp's replay of    *)
(*   BlockProposed events from l1Current, onBlockProposed's dispatch of    *)
(*   per-event workers under proposeConcurrencyGuard, and submitProofOp's  *)
(*   submission tasks under submitProofConcurrencyGuard.                   *)
(*                                                                         *)
(* A process runs one role: `role` is chosen in Init and never changes.    *)
(***************************************************************************)
EXTENDS Integers, Sequences, FiniteSets

VARIABLES
    role,          \* "driver" | "prover": the role this process runs
    cancelled,     \* the root context (ctx) has been cancelled
    \* ---- Driver ----
    dpc,           \* position of Driver.eventLoop
    l1HeadCh,      \* number of headers buffered in d.l1HeadCh
    syncNotify,    \* number of tokens in d.syncNotify
    burst,         \* observation: [phase, n, followUps] of one burst of heads
    spc,           \* position of Driver.reportProtocolStatus
    driverClosePc, \* position of Driver.Close
    \* ---- L1 chain / protocol state (environment) ----
    l1Events,      \* l1Events[id] = L1 height of the BlockProposed event of id
    latestVerifiedId,
    \* ---- Prover ----
    cfg,           \* [even, odd, dummy]: the Config flags read by the loop
    epc,           \* position of Prover.eventLoop (and of init/Start before)
    closePc,       \* position of Prover.Close
    subscribed,    \* blockProposedSub / blockVerifiedSub are live
    l1Current,
    lastHandledBlockID,
    latestVerifiedL1Height,
    blockProposedCh,       \* number of buffered BlockProposed events
    blockVerifiedCh,       \* sequence of buffered BlockVerified L1 heights
    proveNotify,           \* number of tokens in p.proveNotify
    proveValidProofCh,     \* sequence of block ids with a valid proof ready
    proveInvalidProofCh,   \* sequence of block ids with an invalid proof ready
    proposeConcurrencyGuard,      \* tokens in the channel
    submitProofConcurrencyGuard,  \* tokens in the channel
    submitProofTxMutex,    \* mutex object -> id of the task holding it, or 0
    iter,          \* [next, last]: the running BlockProposedIterator
    pendingProof,  \* the proof submitProofOp is called with: [id, isValid]
    workers,       \* ids whose handleBlockProposedEvent task is live
    tasks,         \* id -> [isValid, pc] of the live submission task
    dispatched,    \* history: ids for which onBlockProposed spawned a worker
    requested      \* history: per submitter, the id of its last RequestProof

reporterVars == <<spc, driverClosePc>>

driverVars == <<dpc, l1HeadCh, syncNotify, burst, reporterVars>>

chainVars == <<l1Events, latestVerifiedId>>

proverVars ==
    <<cfg, epc, closePc, subscribed, l1Current, lastHandledBlockID,
      latestVerifiedL1Height, blockProposedCh, blockVerifiedCh, proveNotify,
      proveValidProofCh, proveInvalidProofCh, proposeConcurrencyGuard,
      submitProofConcurrencyGuard, submitProofTxMutex, iter, pendingProof,
      workers, tasks, dispatched, requested>>

vars == <<role, cancelled, driverVars, chainVars, proverVars>>

--------------------------------------------------------------------------
(* Bounds of the model. *)

\* Headers the model lets the l1HeadCh buffer hold (the code's is 1024).
MaxL1Heads == 3

\* BlockProposed events the L1 chain emits in a run.
MaxBlocks == 3

\* Events the model lets blockProposedCh and blockVerifiedCh each buffer (the
\* code's buffers hold 204800); an event that finds the buffer full is lost,
\* as it is on a dropped subscription.
MaxBuffered == 1

\* Blocks the protocol verifies in a run.
MaxVerified == 1

--------------------------------------------------------------------------
(* Program constants. *)

\* make(chan struct{}, 1): capacity of syncNotify and of proveNotify.
NotifyCap == 1

\* cfg.MaxConcurrentProvingJobs: capacity of both concurrency guards.
MaxConcurrentProvingJobs == 2

\* stateVars.GenesisHeight: the L1 height the protocol was deployed at.
GenesisHeight == 0

--------------------------------------------------------------------------
(* Helpers. *)

SeqToSet(s) == {s[i] : i \in 1..Len(s)}

\* Strictly increasing sequence of numbers.
StrictlyIncreasing(s) == \A i, j \in 1..Len(s) : i < j => s[i] < s[j]

\* (variant) a send that adds the token whether or not there is room.
UncappedSend(n) == n + 1

\* select { case ch <- struct{}{}: default: } on a channel of capacity NotifyCap
\* holding n tokens: the token is added if there is room, else nothing happens.
NonBlockingSend(n) == IF n < NotifyCap THEN n + 1 ELSE n

--------------------------------------------------------------------------
(* Driver (src/unnamed/part_000).                                          *)

\* Observation of one burst of L1 heads: a doSync pass that starts with
\* l1HeadCh empty is observed ("during"); n counts the heads delivered while
\* it runs; when it completes with n >= 1 the burst is "after", and followUps
\* counts the doSync passes started since.  A head delivered after the pass
\* completed ends the observation.  unsynced tells that a head was delivered
\* and no doSync pass has started since.
NoBurst == [phase |-> "idle", n |-> 0, followUps |-> 0, unsynced |-> FALSE]

\* A doSync pass starts: doSyncWithBackoff() is called.
PassCounted(b) ==
    IF b.phase = "idle" /\ l1HeadCh = 0
    THEN [b EXCEPT !.phase = "during", !.n = 0, !.followUps = 0]
    ELSE IF b.phase = "after" THEN [b EXCEPT !.followUps = @ + 1] ELSE b

PassStarts(b) == [PassCounted(b) EXCEPT !.unsynced = FALSE]

PassEnds(b) ==
    IF b.phase = "during"
    THEN IF b.n >= 1
         THEN [b EXCEPT !.phase = "after"]
         ELSE [NoBurst EXCEPT !.unsynced = b.unsynced]
    ELSE b

HeadDelivered(b) ==
    IF b.phase = "during"
    THEN [b EXCEPT !.n = @ + 1, !.unsynced = TRUE]
    ELSE [NoBurst EXCEPT !.unsynced = TRUE]

\* (variant) reqSync taking the default branch every time.
reqSyncDropped(n) == n

\* reqSync: select { case d.syncNotify <- struct{}{}: default: }
reqSync(n) == NonBlockingSend(n)

DriverInit ==
    /\ dpc = "created"
    /\ l1HeadCh = 0
    /\ syncNotify = 0
    /\ burst = NoBurst
    /\ spc = "created"
    /\ driverClosePc = "idle"

\* Start spawns eventLoop, which calls doSyncWithBackoff() right away, and
\* reportProtocolStatus, which begins with the retried GetConfig.
DriverStart ==
    /\ role = "driver"
    /\ dpc = "created"
    /\ dpc' = "doSync"
    /\ spc' = "getConfig"
    /\ burst' = PassStarts(burst)
    /\ UNCHANGED <<l1HeadCh, syncNotify, driverClosePc, cancelled, role,
                   chainVars, proverVars>>

\* The state's L1 head feed delivers a header into d.l1HeadCh.
L1HeadArrives ==
    /\ role = "driver"
    /\ ~cancelled
    /\ l1HeadCh < MaxL1Heads
    /\ l1HeadCh' = l1HeadCh + 1
    /\ burst' = HeadDelivered(burst)
    /\ UNCHANGED <<dpc, syncNotify, reporterVars, cancelled, role,
                   chainVars, proverVars>>

\* doSync returns nil: the context is cancelled, or Sync succeeded.
DoSyncReturnsNil ==
    /\ role = "driver"
    /\ dpc = "doSync"
    /\ dpc' = "select"
    /\ burst' = PassEnds(burst)
    /\ UNCHANGED <<l1HeadCh, syncNotify, reporterVars, cancelled, role,
                   chainVars, proverVars>>

\* doSync returns Sync's error: backoff.Retry sleeps before the next attempt.
DoSyncFails ==
    /\ role = "driver"
    /\ dpc = "doSync"
    /\ ~cancelled
    /\ dpc' = "backoff"
    /\ UNCHANGED <<l1HeadCh, syncNotify, burst, reporterVars, cancelled, role,
                   chainVars, proverVars>>

\* backoff.Retry calls doSync again.
BackoffRetries ==
    /\ role = "driver"
    /\ dpc = "backoff"
    /\ dpc' = "doSync"
    /\ UNCHANGED <<l1HeadCh, syncNotify, burst, reporterVars, cancelled, role,
                   chainVars, proverVars>>

\* The exponential backoff is exhausted: backoff.Retry returns the error,
\* which doSyncWithBackoff logs.
BackoffGivesUp ==
    /\ role = "driver"
    /\ dpc = "backoff"
    /\ dpc' = "select"
    /\ burst' = PassEnds(burst)
    /\ UNCHANGED <<l1HeadCh, syncNotify, reporterVars, cancelled, role,
                   chainVars, proverVars>>

\* case <-d.ctx.Done(): return
DriverSelectDone ==
    /\ role = "driver"
    /\ dpc = "select"
    /\ cancelled
    /\ dpc' = "exit"
    /\ UNCHANGED <<l1HeadCh, syncNotify, burst, reporterVars, cancelled, role,
                   chainVars, proverVars>>

\* case <-d.syncNotify: doSyncWithBackoff()
DriverSelectSyncNotify ==
    /\ role = "driver"
    /\ dpc = "select"
    /\ syncNotify > 0
    /\ syncNotify' = syncNotify - 1
    /\ dpc' = "doSync"
    /\ burst' = PassStarts(burst)
    /\ UNCHANGED <<l1HeadCh, reporterVars, cancelled, role,
                   chainVars, proverVars>>

\* (variant) case <-d.l1HeadCh: doSyncWithBackoff(), with no token involved.
DriverSelectL1HeadSyncs ==
    /\ role = "driver"
    /\ dpc = "select"
    /\ l1HeadCh > 0
    /\ l1HeadCh' = l1HeadCh - 1
    /\ dpc' = "doSync"
    /\ burst' = PassStarts(burst)
    /\ UNCHANGED <<syncNotify, reporterVars, cancelled, role,
                   chainVars, proverVars>>

\* case <-d.l1HeadCh: reqSync()
DriverSelectL1Head ==
    /\ role = "driver"
    /\ dpc = "select"
    /\ l1HeadCh > 0
    /\ l1HeadCh' = l1HeadCh - 1
    /\ syncNotify' = reqSync(syncNotify)
    /\ UNCHANGED <<dpc, burst, reporterVars, cancelled, role,
                   chainVars, proverVars>>

\* reportProtocolStatus: d.rpc.TaikoL1.GetConfig(nil) returns an error and
\* backoff.Retry sleeps for RetryDelay. Neither the closure nor the call is
\* given d.ctx, so this happens after cancellation as well.
GetConfigFails ==
    /\ role = "driver"
    /\ spc = "getConfig"
    /\ spc' = "retryDelay"
    /\ UNCHANGED <<dpc, l1HeadCh, syncNotify, burst, driverClosePc, cancelled,
                   role, chainVars, proverVars>>

\* The constant backoff never stops: backoff.Retry calls the closure again.
ConstantBackOffRetries ==
    /\ role = "driver"
    /\ spc = "retryDelay"
    /\ spc' = "getConfig"
    /\ UNCHANGED <<dpc, l1HeadCh, syncNotify, burst, driverClosePc, cancelled,
                   role, chainVars, proverVars>>

\* GetConfig answers: maxNumBlocks is set and the reporter enters its loop.
GetConfigReturns ==
    /\ role = "driver"
    /\ spc = "getConfig"
    /\ spc' = "select"
    /\ UNCHANGED <<dpc, l1HeadCh, syncNotify, burst, driverClosePc, cancelled,
                   role, chainVars, proverVars>>

\* reportProtocolStatus: case <-ticker.C: read the state variables and log
\* them, or log the error and continue.
ReporterTicks ==
    /\ role = "driver"
    /\ spc = "select"
    /\ UNCHANGED vars

\* reportProtocolStatus: case <-d.ctx.Done(): return, and the deferred
\* d.wg.Done() runs.
ReporterSelectDone ==
    /\ role = "driver"
    /\ spc = "select"
    /\ cancelled
    /\ spc' = "exit"
    /\ UNCHANGED <<dpc, l1HeadCh, syncNotify, burst, driverClosePc, cancelled,
                   role, chainVars, proverVars>>

\* Close: d.state.Close(), then d.wg.Wait() begins. The owner of the process
\* cancels the root context before it calls Close.
DriverClose ==
    /\ role = "driver"
    /\ dpc # "created"
    /\ cancelled
    /\ driverClosePc = "idle"
    /\ driverClosePc' = "waiting"
    /\ UNCHANGED <<dpc, l1HeadCh, syncNotify, burst, spc, cancelled, role,
                   chainVars, proverVars>>

\* d.wg.Wait() returns once eventLoop and reportProtocolStatus have both
\* called d.wg.Done().
DriverCloseReturns ==
    /\ role = "driver"
    /\ driverClosePc = "waiting"
    /\ dpc = "exit"
    /\ spc = "exit"
    /\ driverClosePc' = "returned"
    /\ UNCHANGED <<dpc, l1HeadCh, syncNotify, burst, spc, cancelled, role,
                   chainVars, proverVars>>

--------------------------------------------------------------------------
(* The L1 chain and the protocol state the Prover reads.                   *)

NumProposed == Len(l1Events)

\* L1 height of the current L1 head as far as proposals show it.
L1HeadHeight == IF NumProposed = 0 THEN GenesisHeight ELSE l1Events[NumProposed]

\* L1Origin of block id on L2: event.Raw.BlockNumber of its BlockProposed.
L1OriginHeight(id) == l1Events[id]

ChainInit ==
    /\ l1Events = <<>>
    /\ latestVerifiedId = 0

\* A subscription delivers an event into a channel holding n events.
Delivers(n) == subscribed /\ n < MaxBuffered

\* The L1 block of the n-th proposal: the chain of the model packs two
\* proposals into each L1 block after the genesis block, so that a replay
\* from the block of the last dispatched event meets both events it has
\* handled and events it has not.
ProposalHeight(n) == GenesisHeight + (n + 1) \div 2

\* A block is proposed on L1; the BlockProposed subscription delivers the
\* event or loses it (no subscription yet, a dropped one, a full buffer).
\* (What the chain does after the context is cancelled is not followed.)
ProposeBlock ==
    /\ role = "prover"
    /\ ~cancelled
    /\ NumProposed < MaxBlocks
    /\ l1Events' = Append(l1Events, ProposalHeight(NumProposed + 1))
    /\ \E arrives \in BOOLEAN :
           blockProposedCh' =
               IF arrives /\ Delivers(blockProposedCh)
               THEN blockProposedCh + 1
               ELSE blockProposedCh
    /\ UNCHANGED <<role, driverVars, latestVerifiedId, cancelled, cfg, epc, closePc, subscribed,
                   l1Current, lastHandledBlockID, latestVerifiedL1Height,
                   blockVerifiedCh, proveNotify, proveValidProofCh,
                   proveInvalidProofCh, proposeConcurrencyGuard,
                   submitProofConcurrencyGuard, submitProofTxMutex, iter,
                   pendingProof, workers, tasks, dispatched, requested>>

\* The protocol verifies the next block in the L1 head block; the
\* BlockVerified subscription delivers the event or loses it.
VerifyBlock ==
    /\ role = "prover"
    /\ ~cancelled
    /\ latestVerifiedId < NumProposed
    /\ latestVerifiedId < MaxVerified
    /\ latestVerifiedId' = latestVerifiedId + 1
    /\ blockVerifiedCh' =
           IF Delivers(Len(blockVerifiedCh))
           THEN Append(blockVerifiedCh, L1HeadHeight)
           ELSE blockVerifiedCh
    /\ UNCHANGED <<role, driverVars, l1Events, cancelled, cfg, epc, closePc, subscribed,
                   l1Current, lastHandledBlockID, latestVerifiedL1Height,
                   blockProposedCh, proveNotify, proveValidProofCh,
                   proveInvalidProofCh, proposeConcurrencyGuard,
                   submitProofConcurrencyGuard, submitProofTxMutex, iter,
                   pendingProof, workers, tasks, dispatched, requested>>

\* The owner of the process cancels the root context.
Cancel ==
    /\ ~cancelled
    /\ cancelled' = TRUE
    /\ UNCHANGED <<role, driverVars, chainVars, proverVars>>

--------------------------------------------------------------------------
(* Prover (src/prover/prover.go): state and helpers.                       *)

Configs == [even : BOOLEAN, odd : BOOLEAN, dummy : BOOLEAN]

NoIter == [next |-> 0, last |-> 0]

NoProof == [id |-> 0, isValid |-> FALSE]

\* The mutex objects a submitter can be built with.
Mutexes == {"submitProofTxMutex", "otherMutex"}

\* InitFromConfig hands p.submitProofTxMutex to NewValidProofSubmitter ...
ValidSubmitterMutex == "submitProofTxMutex"

\* (variant) the invalid submitter built with a mutex of its own.
OwnMutexForInvalidSubmitter == "otherMutex"

\* ... and the same p.submitProofTxMutex to NewInvalidProofSubmitter.
InvalidSubmitterMutex == "submitProofTxMutex"

SubmitterMutex(isValid) ==
    IF isValid THEN ValidSubmitterMutex ELSE InvalidSubmitterMutex

lifeVars == <<cfg, closePc, subscribed>>

cursorVars == <<l1Current, lastHandledBlockID>>

subVars == <<blockProposedCh, blockVerifiedCh>>

proofChans == <<proveValidProofCh, proveInvalidProofCh>>

workVars == <<proposeConcurrencyGuard, workers, dispatched, requested>>

submitVars ==
    <<submitProofConcurrencyGuard, submitProofTxMutex, pendingProof, tasks>>

\* f without the key k.
Without(f, k) == [x \in DOMAIN f \ {k} |-> f[x]]

\* f with the key k bound to v.
With(f, k, v) == [x \in DOMAIN f \cup {k} |-> IF x = k THEN v ELSE f[x]]

\* reqProving: select { case p.proveNotify <- struct{}{}: default: }
reqProving(n) == NonBlockingSend(n)

\* (variant) a guard send that never blocks.
GuardNeverFull(n) == TRUE

\* A send on a concurrency guard (a channel of capacity
\* MaxConcurrentProvingJobs holding n tokens) can proceed.
GuardHasRoom(n) == n < MaxConcurrentProvingJobs

ProverInit ==
    /\ cfg \in Configs
    /\ epc = "new"
    /\ closePc = "idle"
    /\ subscribed = FALSE
    /\ l1Current = 0
    /\ lastHandledBlockID = 0
    /\ latestVerifiedL1Height = 0
    /\ blockProposedCh = 0
    /\ blockVerifiedCh = <<>>
    /\ proveNotify = 0
    /\ proveValidProofCh = <<>>
    /\ proveInvalidProofCh = <<>>
    /\ proposeConcurrencyGuard = 0
    /\ submitProofConcurrencyGuard = 0
    /\ submitProofTxMutex = [m \in Mutexes |-> 0]
    /\ iter = NoIter
    /\ pendingProof = NoProof
    /\ workers = {}
    /\ tasks = <<>>
    /\ dispatched = <<>>
    /\ requested = [valid |-> 0, invalid |-> 0]

\* The Prover's state in a process that runs the Driver.
ProverAbsent ==
    /\ ProverInit
    /\ cfg = [even |-> FALSE, odd |-> FALSE, dummy |-> FALSE]

\* The Driver's state in a process that runs the Prover.
DriverAbsent == DriverInit

Init ==
    /\ cancelled = FALSE
    /\ ChainInit
    /\ \/ role = "driver" /\ DriverInit /\ ProverAbsent
       \/ role = "prover" /\ DriverAbsent /\ ProverInit

--------------------------------------------------------------------------
(* Prover: InitFromConfig, Start, Close.                                   *)

\* (variant) without a configured id the cursor always starts at genesis.
InitL1CurrentIgnoresVerified(startingBlockID) ==
    IF startingBlockID = 0
    THEN GenesisHeight
    ELSE L1OriginHeight(startingBlockID)

\* initL1Current(startingBlockID), startingBlockID = 0 standing for nil:
\* the value it leaves in p.l1Current when every read succeeds.
InitL1CurrentResult(startingBlockID) ==
    IF startingBlockID = 0
    THEN IF latestVerifiedId = 0
         THEN GenesisHeight
         ELSE L1OriginHeight(latestVerifiedId)
    ELSE L1OriginHeight(startingBlockID)

\* InitFromConfig: the retried initL1Current succeeds (L2 is synced and knows
\* the L1 origin it is asked for) and the guards are made.
InitFromConfig(startingBlockID) ==
    /\ role = "prover"
    /\ epc \in {"new", "initRetry"}
    /\ ~cancelled
    /\ l1Current' = InitL1CurrentResult(startingBlockID)
    /\ epc' = "created"
    /\ UNCHANGED <<role, driverVars, cancelled, chainVars, lifeVars, lastHandledBlockID,
                   latestVerifiedL1Height, subVars, proveNotify, proofChans,
                   workVars, submitVars, iter>>

\* initL1Current returns an error (WaitTillL2Synced, GetProtocolStateVariables
\* or L1OriginByID failed) before either assignment to p.l1Current;
\* backoff.Retry will call it again.
InitL1CurrentFails ==
    /\ role = "prover"
    /\ epc \in {"new", "initRetry"}
    /\ ~cancelled
    /\ epc' = "initRetry"
    /\ UNCHANGED <<role, driverVars, cancelled, chainVars, lifeVars, cursorVars,
                   latestVerifiedL1Height, subVars, proveNotify, proofChans,
                   workVars, submitVars, iter>>

\* The exponential backoff reaches its maximal elapsed time: backoff.Retry
\* returns the last error, which InitFromConfig discards, and the Prover is
\* made with p.l1Current as it was.
InitBackoffGivesUp ==
    /\ role = "prover"
    /\ epc = "initRetry"
    /\ ~cancelled
    /\ epc' = "created"
    /\ UNCHANGED <<role, driverVars, cancelled, chainVars, lifeVars, cursorVars,
                   latestVerifiedL1Height, subVars, proveNotify, proofChans,
                   workVars, submitVars, iter>>

\* Start: initSubscription, then eventLoop, which calls reqProving() first.
Start ==
    /\ role = "prover"
    /\ epc = "created"
    /\ subscribed' = TRUE
    /\ proveNotify' = reqProving(proveNotify)
    /\ epc' = "select"
    /\ UNCHANGED <<role, driverVars, cancelled, chainVars, cfg, closePc, cursorVars,
                   latestVerifiedL1Height, subVars, proofChans, workVars,
                   submitVars, iter>>

\* Close: closeSubscription(), then p.wg.Wait() ...
Close ==
    /\ role = "prover"
    /\ epc \notin {"new", "initRetry", "created"}
    /\ cancelled
    /\ closePc = "idle"
    /\ subscribed' = FALSE
    /\ closePc' = "waiting"
    /\ UNCHANGED <<role, driverVars, cancelled, chainVars, cfg, epc, cursorVars,
                   latestVerifiedL1Height, subVars, proveNotify, proofChans,
                   workVars, submitVars, iter>>

\* ... which returns once eventLoop has called p.wg.Done().
CloseReturns ==
    /\ role = "prover"
    /\ closePc = "waiting"
    /\ epc = "exit"
    /\ closePc' = "returned"
    /\ UNCHANGED <<role, driverVars, cancelled, chainVars, cfg, epc, subscribed, cursorVars,
                   latestVerifiedL1Height, subVars, proveNotify, proofChans,
                   workVars, submitVars, iter>>

--------------------------------------------------------------------------
(* Prover.eventLoop: the cases of its select.                              *)

\* case <-p.ctx.Done(): return (the deferred p.wg.Done() runs)
SelectDone ==
    /\ role = "prover"
    /\ epc = "select"
    /\ cancelled
    /\ epc' = "exit"
    /\ UNCHANGED <<role, driverVars, cancelled, chainVars, lifeVars, cursorVars,
                   latestVerifiedL1Height, subVars, proveNotify, proofChans,
                   workVars, submitVars, iter>>

\* submitProofOp up to its guard send: the send proceeds and the submission
\* task is spawned, or the event loop blocks in it holding the proof.
SubmitProofOpCalled(id, isValid) ==
    IF GuardHasRoom(submitProofConcurrencyGuard)
    THEN /\ submitProofConcurrencyGuard' = submitProofConcurrencyGuard + 1
         /\ tasks' = With(tasks, id, [isValid |-> isValid, pc |-> "lock"])
         /\ UNCHANGED <<pendingProof, epc>>
    ELSE /\ pendingProof' = [id |-> id, isValid |-> isValid]
         /\ epc' = "guardSendSubmit"
         /\ UNCHANGED <<submitProofConcurrencyGuard, tasks>>

\* case proofWithHeader := <-p.proveValidProofCh: submitProofOp(.., true)
SelectValidProof ==
    /\ role = "prover"
    /\ epc = "select"
    /\ proveValidProofCh # <<>>
    /\ proveValidProofCh' = Tail(proveValidProofCh)
    /\ SubmitProofOpCalled(Head(proveValidProofCh), TRUE)
    /\ UNCHANGED <<role, driverVars, cancelled, chainVars, lifeVars, cursorVars,
                   latestVerifiedL1Height, subVars, proveNotify,
                   proveInvalidProofCh, workVars, submitProofTxMutex, iter>>

\* case proofWithHeader := <-p.proveInvalidProofCh: submitProofOp(.., false)
SelectInvalidProof ==
    /\ role = "prover"
    /\ epc = "select"
    /\ proveInvalidProofCh # <<>>
    /\ proveInvalidProofCh' = Tail(proveInvalidProofCh)
    /\ SubmitProofOpCalled(Head(proveInvalidProofCh), FALSE)
    /\ UNCHANGED <<role, driverVars, cancelled, chainVars, lifeVars, cursorVars,
                   latestVerifiedL1Height, subVars, proveNotify,
                   proveValidProofCh, workVars, submitProofTxMutex, iter>>

\* case <-p.blockProposedCh: reqProving()
SelectBlockProposed ==
    /\ role = "prover"
    /\ epc = "select"
    /\ blockProposedCh > 0
    /\ blockProposedCh' = blockProposedCh - 1
    /\ proveNotify' = reqProving(proveNotify)
    /\ UNCHANGED <<role, driverVars, cancelled, chainVars, lifeVars, epc, cursorVars,
                   latestVerifiedL1Height, blockVerifiedCh, proofChans,
                   workVars, submitVars, iter>>

\* (variant) onBlockVerified also moves the cursor to the verified height.
SelectBlockVerifiedMovesCursor ==
    /\ role = "prover"
    /\ epc = "select"
    /\ blockVerifiedCh # <<>>
    /\ latestVerifiedL1Height' = Head(blockVerifiedCh)
    /\ l1Current' = Head(blockVerifiedCh)
    /\ blockVerifiedCh' = Tail(blockVerifiedCh)
    /\ UNCHANGED <<role, driverVars, cancelled, chainVars, lifeVars, epc,
                   lastHandledBlockID, blockProposedCh, proveNotify, proofChans,
                   workVars, submitVars, iter>>

\* case e := <-p.blockVerifiedCh: onBlockVerified(p.ctx, e), which sets
\* p.latestVerifiedL1Height = event.Raw.BlockNumber.
SelectBlockVerified ==
    /\ role = "prover"
    /\ epc = "select"
    /\ blockVerifiedCh # <<>>
    /\ latestVerifiedL1Height' = Head(blockVerifiedCh)
    /\ blockVerifiedCh' = Tail(blockVerifiedCh)
    /\ UNCHANGED <<role, driverVars, cancelled, chainVars, lifeVars, epc, cursorVars,
                   blockProposedCh, proveNotify, proofChans, workVars,
                   submitVars, iter>>

\* (variant) a ticker case that requests nothing.
SelectForceTickerIdle ==
    /\ role = "prover"
    /\ epc = "select"
    /\ UNCHANGED vars

\* case <-forceProvingTicker.C: reqProving()
SelectForceTicker ==
    /\ role = "prover"
    /\ epc = "select"
    /\ proveNotify' = reqProving(proveNotify)
    /\ UNCHANGED <<role, driverVars, cancelled, chainVars, lifeVars, epc, cursorVars,
                   latestVerifiedL1Height, subVars, proofChans, workVars,
                   submitVars, iter>>

--------------------------------------------------------------------------
(* proveOp and the BlockProposedIterator.                                  *)

\* (variant) a replay that starts at the genesis height.
StartFromGenesis == GenesisHeight

\* StartHeight of the iterator proveOp builds.
StartHeight == l1Current

\* The events the iterator replays: those at or above the start height, up
\* to the head at the time of the call, in L1 height then log index order,
\* which is the order of their ids.
FirstEventFrom(height) ==
    IF \E id \in 1..NumProposed : l1Events[id] >= height
    THEN CHOOSE id \in 1..NumProposed :
             /\ l1Events[id] >= height
             /\ \A j \in 1..(id - 1) : l1Events[j] < height
    ELSE 0

\* case <-p.proveNotify: proveOp().  NewBlockProposedIterator fails (proveOp
\* returns the error), or the iterator starts its replay; with no event in
\* range Iter() returns at once.
SelectProveNotify(iterOk) ==
    /\ role = "prover"
    /\ epc = "select"
    /\ proveNotify > 0
    /\ proveNotify' = proveNotify - 1
    /\ IF iterOk /\ FirstEventFrom(StartHeight) # 0
       THEN /\ iter' = [next |-> FirstEventFrom(StartHeight), last |-> NumProposed]
            /\ epc' = "proveOp"
       ELSE /\ iter' = NoIter
            /\ epc' = "select"
    /\ UNCHANGED <<role, driverVars, cancelled, chainVars, lifeVars, cursorVars,
                   latestVerifiedL1Height, subVars, proofChans, workVars,
                   submitVars>>

\* The iterator sees the cancelled context and Iter() returns.
IterCancelled ==
    /\ role = "prover"
    /\ epc = "proveOp"
    /\ cancelled
    /\ iter' = NoIter
    /\ epc' = "select"
    /\ UNCHANGED <<role, driverVars, cancelled, chainVars, lifeVars, cursorVars,
                   latestVerifiedL1Height, subVars, proveNotify, proofChans,
                   workVars, submitVars>>

--------------------------------------------------------------------------
(* onBlockProposed and the per-event worker handleBlockProposedEvent.      *)

\* (variant) only the valid result channel is looked at.
ValidProofsPending == Len(proveValidProofCh) > 0

\* len(p.proveValidProofCh) > 0 || len(p.proveInvalidProofCh) > 0
ProofsPending == Len(proveValidProofCh) > 0 \/ Len(proveInvalidProofCh) > 0

\* (variant) the lastHandledBlockID test left out.
NeverHandled(id) == FALSE

\* (variant) the comparison with < in place of <=.
HandledBefore(id) == id < lastHandledBlockID

\* event.Id.Uint64() <= p.lastHandledBlockID
AlreadyHandled(id) == id <= lastHandledBlockID

\* (variant) the two parity tests swapped.
ParitySwapped(id) ==
    \/ cfg.even /\ id % 2 = 0
    \/ cfg.odd /\ id % 2 # 0

\* The OnlyProveEvenNumberBlocks / OnlyProveOddNumberBlocks checks.
ParityFiltered(id) ==
    \/ cfg.even /\ id % 2 # 0
    \/ cfg.odd /\ id % 2 = 0

\* onBlockProposed returned nil without end(): the iterator goes on to the
\* next event of its snapshot, or Iter() returns when there is none.
IterAdvances ==
    IF iter.next = iter.last
    THEN iter' = NoIter /\ epc' = "select"
    ELSE iter' = [iter EXCEPT !.next = @ + 1] /\ epc' = "proveOp"

\* (variant) the cursor is moved past the L1 block of the event.
DispatchPastBlock(id) ==
    /\ proposeConcurrencyGuard' = proposeConcurrencyGuard + 1
    /\ l1Current' = l1Events[id] + 1
    /\ lastHandledBlockID' = id
    /\ workers' = workers \cup {id}
    /\ dispatched' = Append(dispatched, id)
    /\ IterAdvances

\* From the guard send on: the token is in the guard, the cursor and
\* lastHandledBlockID are set from the event, the worker is spawned.
Dispatch(id) ==
    /\ proposeConcurrencyGuard' = proposeConcurrencyGuard + 1
    /\ l1Current' = l1Events[id]
    /\ lastHandledBlockID' = id
    /\ workers' = workers \cup {id}
    /\ dispatched' = Append(dispatched, id)
    /\ IterAdvances

\* The iterator calls onBlockProposed with its next event.  The call ends
\* the replay, skips the event, dispatches it, or blocks on the guard send.
OnBlockProposed ==
    /\ role = "prover"
    /\ epc = "proveOp"
    /\ IF ProofsPending
       THEN /\ iter' = NoIter
            /\ epc' = "select"
            /\ UNCHANGED <<cursorVars, proposeConcurrencyGuard, workers,
                           dispatched>>
       ELSE IF AlreadyHandled(iter.next) \/ ParityFiltered(iter.next)
       THEN /\ IterAdvances
            /\ UNCHANGED <<cursorVars, proposeConcurrencyGuard, workers,
                           dispatched>>
       ELSE IF GuardHasRoom(proposeConcurrencyGuard)
       THEN Dispatch(iter.next)
       ELSE /\ epc' = "guardSendPropose"
            /\ UNCHANGED <<iter, cursorVars, proposeConcurrencyGuard, workers,
                           dispatched>>
    /\ UNCHANGED <<role, driverVars, cancelled, chainVars, lifeVars, latestVerifiedL1Height,
                   subVars, proveNotify, proofChans, submitVars, requested>>

\* The blocked p.proposeConcurrencyGuard <- struct{}{} proceeds.
GuardSendProposeProceeds ==
    /\ role = "prover"
    /\ epc = "guardSendPropose"
    /\ GuardHasRoom(proposeConcurrencyGuard)
    /\ Dispatch(iter.next)
    /\ UNCHANGED <<role, driverVars, cancelled, chainVars, lifeVars, latestVerifiedL1Height,
                   subVars, proveNotify, proofChans, submitVars, requested>>

\* isBlockVerified: id <= stateVars.LatestVerifiedId
isBlockVerified(id) == id <= latestVerifiedId

\* (variant) the worker returns without receiving from the guard.
WorkerExitsKeepingToken(id) ==
    /\ workers' = workers \ {id}
    /\ proposeConcurrencyGuard' = proposeConcurrencyGuard

\* The worker returns and its deferred <-p.proposeConcurrencyGuard runs.
WorkerExits(id) ==
    /\ workers' = workers \ {id}
    /\ proposeConcurrencyGuard' = proposeConcurrencyGuard - 1

\* The worker returns before RequestProof: the block is verified, needs no
\* new proof, or a read or the validator failed.
WorkerReturnsEarly(id) ==
    /\ role = "prover"
    /\ id \in workers
    /\ WorkerExits(id)
    /\ UNCHANGED <<role, driverVars, cancelled, chainVars, lifeVars, epc, cursorVars,
                   latestVerifiedL1Height, subVars, proveNotify, proofChans,
                   submitVars, iter, dispatched, requested>>

\* (variant) the two submitters exchanged.
RequestProofSwapped(id, hintOK) ==
    IF hintOK
    THEN [requested EXCEPT !.invalid = id]
    ELSE [requested EXCEPT !.valid = id]

\* hint == txListValidator.HintOK selects validProofSubmitter.RequestProof,
\* any other hint invalidProofSubmitter.RequestProof.
RequestProofCalled(id, hintOK) ==
    IF hintOK
    THEN [requested EXCEPT !.valid = id]
    ELSE [requested EXCEPT !.invalid = id]

\* The owner of the result channel of a submitter pushes the proof into it.
ProofPushed(id, isValid) ==
    IF isValid
    THEN /\ proveValidProofCh' = Append(proveValidProofCh, id)
         /\ UNCHANGED proveInvalidProofCh
    ELSE /\ proveInvalidProofCh' = Append(proveInvalidProofCh, id)
         /\ UNCHANGED proveValidProofCh

\* The block is not verified and needs a proof: the worker calls RequestProof
\* on the valid submitter if the hint is HintOK, else on the invalid one.
\* RequestProof completes: the proof is pushed into the result channel the
\* submitter owns, and the worker returns.
WorkerRequestsProof(id, hintOK) ==
    /\ role = "prover"
    /\ id \in workers
    /\ ~isBlockVerified(id)
    /\ requested' = RequestProofCalled(id, hintOK)
    /\ ProofPushed(id, hintOK)
    /\ WorkerExits(id)
    /\ UNCHANGED <<role, driverVars, cancelled, chainVars, lifeVars, epc, cursorVars,
                   latestVerifiedL1Height, subVars, proveNotify, submitVars,
                   iter, dispatched>>

\* As above, but RequestProof returns an error (the context is cancelled,
\* the producer fails): the worker logs it and returns.
WorkerRequestFails(id, hintOK) ==
    /\ role = "prover"
    /\ id \in workers
    /\ ~isBlockVerified(id)
    /\ requested' = RequestProofCalled(id, hintOK)
    /\ WorkerExits(id)
    /\ UNCHANGED <<role, driverVars, cancelled, chainVars, lifeVars, epc, cursorVars,
                   latestVerifiedL1Height, subVars, proveNotify, proofChans,
                   submitVars, iter, dispatched>>

--------------------------------------------------------------------------
(* submitProofOp and its submission task.                                  *)

\* The blocked p.submitProofConcurrencyGuard <- struct{}{} of submitProofOp
\* proceeds and the submission task is spawned.
GuardSendSubmitProceeds ==
    /\ role = "prover"
    /\ epc = "guardSendSubmit"
    /\ GuardHasRoom(submitProofConcurrencyGuard)
    /\ submitProofConcurrencyGuard' = submitProofConcurrencyGuard + 1
    /\ tasks' = With(tasks, pendingProof.id,
                     [isValid |-> pendingProof.isValid, pc |-> "lock"])
    /\ pendingProof' = NoProof
    /\ epc' = "select"
    /\ UNCHANGED <<role, driverVars, cancelled, chainVars, lifeVars, cursorVars,
                   latestVerifiedL1Height, subVars, proveNotify, proofChans,
                   workVars, submitProofTxMutex, iter>>

\* The task returns and its deferred <-p.submitProofConcurrencyGuard runs.
TaskExits(id) ==
    /\ tasks' = Without(tasks, id)
    /\ submitProofConcurrencyGuard' = submitProofConcurrencyGuard - 1

\* The retried branch of the task: isValidProof && p.cfg.Dummy.
OracleRetry(id) == tasks[id].isValid /\ cfg.dummy

\* SubmitProof locks its submitter's mutex before building the transaction.
TaskLocksMutex(id) ==
    /\ role = "prover"
    /\ id \in DOMAIN tasks
    /\ tasks[id].pc = "lock"
    /\ submitProofTxMutex[SubmitterMutex(tasks[id].isValid)] = 0
    /\ submitProofTxMutex' =
           [submitProofTxMutex EXCEPT ![SubmitterMutex(tasks[id].isValid)] = id]
    /\ tasks' = [tasks EXCEPT ![id].pc = "tx"]
    /\ UNCHANGED <<role, driverVars, cancelled, chainVars, lifeVars, epc, cursorVars,
                   latestVerifiedL1Height, subVars, proveNotify, proofChans,
                   workVars, submitProofConcurrencyGuard, pendingProof, iter>>

\* SubmitProof gets the receipt, unlocks and returns nil: the task returns.
TaskSubmitSucceeds(id) ==
    /\ role = "prover"
    /\ id \in DOMAIN tasks
    /\ tasks[id].pc = "tx"
    /\ ~cancelled
    /\ submitProofTxMutex' =
           [submitProofTxMutex EXCEPT ![SubmitterMutex(tasks[id].isValid)] = 0]
    /\ TaskExits(id)
    /\ UNCHANGED <<role, driverVars, cancelled, chainVars, lifeVars, epc, cursorVars,
                   latestVerifiedL1Height, subVars, proveNotify, proofChans,
                   workVars, pendingProof, iter>>

\* SubmitProof unlocks and returns an error.  In the oracle branch
\* backoff.Retry calls it again after the constant backoff; otherwise the
\* task logs the error and returns.
TaskSubmitFails(id) ==
    /\ role = "prover"
    /\ id \in DOMAIN tasks
    /\ tasks[id].pc = "tx"
    /\ submitProofTxMutex' =
           [submitProofTxMutex EXCEPT ![SubmitterMutex(tasks[id].isValid)] = 0]
    /\ IF OracleRetry(id)
       THEN /\ tasks' = [tasks EXCEPT ![id].pc = "lock"]
            /\ UNCHANGED submitProofConcurrencyGuard
       ELSE TaskExits(id)
    /\ UNCHANGED <<role, driverVars, cancelled, chainVars, lifeVars, epc, cursorVars,
                   latestVerifiedL1Height, subVars, proveNotify, proofChans,
                   workVars, pendingProof, iter>>

--------------------------------------------------------------------------
(* The specification.                                                      *)

Blocks == 1..MaxBlocks

Next ==
    \/ Cancel
    \/ DriverStart
    \/ L1HeadArrives
    \/ DoSyncReturnsNil
    \/ DoSyncFails
    \/ BackoffRetries
    \/ BackoffGivesUp
    \/ DriverSelectDone
    \/ DriverSelectSyncNotify
    \/ DriverSelectL1Head
    \/ GetConfigFails
    \/ ConstantBackOffRetries
    \/ GetConfigReturns
    \/ ReporterTicks
    \/ ReporterSelectDone
    \/ DriverClose
    \/ DriverCloseReturns
    \/ ProposeBlock
    \/ VerifyBlock
    \/ \E s \in 0..NumProposed : InitFromConfig(s)
    \/ InitL1CurrentFails
    \/ InitBackoffGivesUp
    \/ Start
    \/ Close
    \/ CloseReturns
    \/ SelectDone
    \/ SelectValidProof
    \/ SelectInvalidProof
    \/ SelectBlockProposed
    \/ SelectBlockVerified
    \/ SelectForceTicker
    \/ \E ok \in BOOLEAN : SelectProveNotify(ok)
    \/ IterCancelled
    \/ OnBlockProposed
    \/ GuardSendProposeProceeds
    \/ \E id \in Blocks : WorkerReturnsEarly(id)
    \/ \E id \in Blocks, hintOK \in BOOLEAN : WorkerRequestsProof(id, hintOK)
    \/ \E id \in Blocks, hintOK \in BOOLEAN : WorkerRequestFails(id, hintOK)
    \/ GuardSendSubmitProceeds
    \/ \E id \in Blocks : TaskLocksMutex(id)
    \/ \E id \in Blocks : TaskSubmitSucceeds(id)
    \/ \E id \in Blocks : TaskSubmitFails(id)

Spec == Init /\ [][Next]_vars

\* The scheduling of the Driver's event loop: a doSync pass ends (Sync
\* terminates and the exponential backoff gives up after its maximal elapsed
\* time), and the select picks a case that keeps becoming ready.
DriverFairness ==
    /\ WF_vars(DoSyncReturnsNil \/ DoSyncFails)
    /\ WF_vars(BackoffRetries \/ BackoffGivesUp)
    /\ SF_vars(DoSyncReturnsNil \/ BackoffGivesUp)
    /\ SF_vars(DriverSelectDone)
    /\ SF_vars(DriverSelectSyncNotify)
    /\ SF_vars(DriverSelectL1Head)

DriverFairSpec == Spec /\ DriverFairness

\* The scheduling of the Driver's shutdown: besides the event loop's, a
\* GetConfig call returns, the constant backoff's delay ends, the reporter's
\* select takes ctx.Done() once it is ready, and Close is called and goes on
\* when the wait group lets it. Nothing is assumed about what GetConfig
\* answers.
DriverCloseFairness ==
    /\ DriverFairness
    /\ WF_vars(GetConfigFails \/ GetConfigReturns)
    /\ WF_vars(ConstantBackOffRetries)
    /\ WF_vars(ReporterSelectDone)
    /\ WF_vars(DriverClose)
    /\ WF_vars(DriverCloseReturns)

DriverCloseFairSpec == Spec /\ DriverCloseFairness

\* The scheduling the liveness properties assume: a task that can take a
\* step takes one (the Go scheduler), the select picks a case that stays or
\* keeps becoming ready (its choice among ready cases is uniformly random),
\* a task that waits for the mutex gets it when it keeps being released
\* (sync.Mutex hands over to a starving waiter), and the owner that
\* cancelled the context calls Close.
Fairness ==
    /\ SF_vars(SelectDone)
    /\ WF_vars(IterCancelled \/ OnBlockProposed \/ GuardSendProposeProceeds
               \/ GuardSendSubmitProceeds)
    /\ \A id \in Blocks :
           WF_vars(WorkerReturnsEarly(id)
                   \/ \E h \in BOOLEAN : WorkerRequestFails(id, h))
    /\ \A id \in Blocks : SF_vars(TaskLocksMutex(id))
    /\ \A id \in Blocks : WF_vars(TaskSubmitSucceeds(id) \/ TaskSubmitFails(id))
    /\ WF_vars(Close)
    /\ WF_vars(CloseReturns)

FairSpec == Spec /\ Fairness

\* The scheduling forward progress assumes while the context is live: the
\* force ticker fires and the select serves each case that keeps becoming
\* ready, the iterator can be built, workers return, and submissions get
\* their receipt.
ProgressFairness ==
    /\ WF_vars(SelectForceTicker)
    /\ SF_vars(SelectProveNotify(TRUE))
    /\ SF_vars(SelectValidProof \/ SelectInvalidProof)
    /\ WF_vars(OnBlockProposed \/ GuardSendProposeProceeds
               \/ GuardSendSubmitProceeds)
    /\ WF_vars(\E id \in Blocks :
                   \/ WorkerReturnsEarly(id)
                   \/ \E h \in BOOLEAN : WorkerRequestFails(id, h))
    /\ WF_vars(\E id \in Blocks : TaskLocksMutex(id))
    /\ SF_vars(\E id \in Blocks : TaskSubmitSucceeds(id))

ProgressFairSpec == Spec /\ ProgressFairness

--------------------------------------------------------------------------
(* Properties.                                                             *)

Submitters == {"valid", "invalid"}

\* C1 (as stated): the ids passed to a submitter's RequestProof are strictly
\* increasing: every call carries an id above that of the submitter's
\* previous call.
C1_RequestProofIdsIncrease ==
    [][\A sub \in Submitters :
           requested'[sub] # requested[sub] => requested'[sub] > requested[sub]]_vars

\* C1 (amended): the ids for which onBlockProposed spawns a worker are
\* strictly increasing, and RequestProof is only ever called with an id that
\* was dispatched.
C1_DispatchStrictlyIncreasing ==
    /\ StrictlyIncreasing(dispatched)
    /\ \A sub \in Submitters :
           requested[sub] # 0 => requested[sub] \in SeqToSet(dispatched)

\* Three dispatches in one session, the last RequestProof calls made for the
\* first and the last of them.
C1_Witness ==
    /\ Len(dispatched) = 3
    /\ requested.valid = dispatched[1]
    /\ requested.invalid = dispatched[3]

\* The Driver's event loop waits in its select with nothing left to do.
DriverQuiescent ==
    /\ role = "driver"
    /\ ~cancelled
    /\ dpc = "select"
    /\ l1HeadCh = 0
    /\ syncNotify = 0

\* C2 (as stated): N >= 1 heads that arrive while a doSync pass runs are
\* followed by exactly one doSync pass.
C2_ExactlyOneFollowUp ==
    DriverQuiescent /\ burst.phase = "after" => burst.followUps = 1

\* C2 (amended): N >= 1 heads that arrive while a doSync pass runs are
\* followed by at least one and at most N doSync passes.
C2_OneToNFollowUps ==
    DriverQuiescent /\ burst.phase = "after" =>
        /\ burst.n >= 1
        /\ burst.followUps >= 1
        /\ burst.followUps <= burst.n

\* A burst of two heads or more that was followed by a single pass.
C2_Witness ==
    /\ DriverQuiescent
    /\ burst.phase = "after"
    /\ burst.n >= 2
    /\ burst.followUps = 1

\* C3: at most MaxConcurrentProvingJobs proof-request workers are live.
C3_BoundedProvingConcurrency ==
    Cardinality(workers) <= MaxConcurrentProvingJobs

\* The workers are at capacity and onBlockProposed waits for a token.
C3_Witness ==
    /\ Cardinality(workers) = MaxConcurrentProvingJobs
    /\ epc = "guardSendPropose"

\* C4: at most MaxConcurrentProvingJobs submission tasks are live, and while
\* they are at capacity a submitProofOp that waits for a token keeps the
\* event loop where it is, with its proof and no task for it.
C4_BoundedSubmissionConcurrency ==
    [][/\ Cardinality(DOMAIN tasks') <= MaxConcurrentProvingJobs
       /\ ( /\ epc = "guardSendSubmit"
            /\ Cardinality(DOMAIN tasks) >= MaxConcurrentProvingJobs )
          => /\ epc' = "guardSendSubmit"
             /\ pendingProof' = pendingProof
             /\ pendingProof.id \notin DOMAIN tasks']_vars

\* The submission tasks are at capacity and submitProofOp waits for a token.
C4_Witness ==
    /\ Cardinality(DOMAIN tasks) = MaxConcurrentProvingJobs
    /\ epc = "guardSendSubmit"

\* The submission tasks between sending their transaction and its receipt.
InTx == {id \in DOMAIN tasks : tasks[id].pc = "tx"}

\* C5: at most one submission task, valid or invalid, is between building
\* its transaction and receiving the receipt.
C5_SubmissionSerialised == Cardinality(InTx) <= 1

\* A valid and an invalid submission are live, one in its transaction and
\* the other waiting for the mutex.
C5_Witness ==
    \E a, b \in DOMAIN tasks :
        /\ tasks[a].isValid # tasks[b].isValid
        /\ tasks[a].pc = "tx"
        /\ tasks[b].pc = "lock"

\* C6: a call to onBlockProposed with an event whose id is at most
\* lastHandledBlockID spawns no worker, takes no token, calls no submitter
\* and leaves the cursor and lastHandledBlockID alone.
C6_IdempotentSkip ==
    [][OnBlockProposed /\ iter.next <= lastHandledBlockID =>
           UNCHANGED <<workers, proposeConcurrencyGuard, dispatched,
                       requested, l1Current, lastHandledBlockID>>]_vars

\* A later replay has passed event 1 again: events 1 and 2 share their L1
\* block, both were dispatched before, and the iterator stands at event 2.
C6_Witness ==
    /\ epc = "proveOp"
    /\ iter.next = 2
    /\ dispatched = <<1, 2>>
    /\ proposeConcurrencyGuard = 0

\* C7: once the context is cancelled, Close() of a started Prover returns.
C7_CloseReturnsAfterCancel ==
    (role = "prover" /\ cancelled /\ epc \notin {"new", "initRetry", "created"})
        ~> (closePc = "returned")

\* C8: a call to onBlockProposed, to its end, never lowers l1Current.
C8_CursorNonDecreasing ==
    [][(epc \in {"proveOp", "guardSendPropose"}) => (l1Current' >= l1Current)]_vars

\* Two dispatches, the second of which moved the cursor to a later L1 block.
C8_Witness ==
    /\ Len(dispatched) >= 2
    /\ l1Current = l1Events[lastHandledBlockID]
    /\ l1Current > l1Events[dispatched[1]]

\* C9: with OnlyProveEvenNumberBlocks no odd id, and with
\* OnlyProveOddNumberBlocks no even id, is dispatched, has a worker or
\* becomes lastHandledBlockID; the call for such an event takes no token
\* and leaves the cursor alone.
C9_ParityFilter ==
    [][/\ \A id \in (SeqToSet(dispatched') \cup workers' \cup {lastHandledBlockID'}) \ {0} :
              /\ cfg.even => id % 2 = 0
              /\ cfg.odd => id % 2 = 1
       /\ ( /\ OnBlockProposed
            /\ \/ cfg.even /\ iter.next % 2 = 1
               \/ cfg.odd /\ iter.next % 2 = 0 )
          => UNCHANGED <<workers, proposeConcurrencyGuard, dispatched,
                         l1Current, lastHandledBlockID>>]_vars

\* Even blocks only: the replay has passed event 1 and dispatched nothing.
C9_Witness ==
    /\ cfg.even
    /\ ~cfg.odd
    /\ epc = "proveOp"
    /\ iter.next = 2
    /\ dispatched = <<>>

\* C10: syncNotify and proveNotify hold at most one token; a request made
\* while the token is there changes nothing and leaves the loop in its
\* select.
C10_SingleSlotNotify ==
    [][/\ syncNotify' <= 1
       /\ proveNotify' <= 1
       /\ DriverSelectL1Head /\ syncNotify = 1
          => syncNotify' = 1 /\ dpc' = "select"
       /\ (SelectBlockProposed \/ SelectForceTicker \/ Start) /\ proveNotify = 1
          => proveNotify' = 1 /\ epc' = "select"]_vars

\* The token is in proveNotify and a BlockProposed event waits to ask for
\* another.
C10_Witness ==
    /\ role = "prover"
    /\ epc = "select"
    /\ proveNotify = 1
    /\ blockProposedCh > 0

\* C11: no step lowers lastHandledBlockID.
C11_LastHandledNonDecreasing ==
    [][lastHandledBlockID' >= lastHandledBlockID]_vars

\* A replay delivers an event below lastHandledBlockID after two dispatches.
C11_Witness ==
    /\ epc = "proveOp"
    /\ Len(dispatched) >= 2
    /\ lastHandledBlockID = dispatched[Len(dispatched)]
    /\ iter.next < lastHandledBlockID

\* C12 (as stated): no step moves l1Current to a value below the L1 height
\* of the latest verified block known to the Prover.
C12_CursorSetAtOrAboveVerified ==
    [][l1Current' # l1Current => l1Current' >= latestVerifiedL1Height']_vars

\* C12 (amended): no step takes l1Current from at or above the L1 height of
\* the latest verified block known to the Prover to below it.
C12_NoRewindPastVerified ==
    [][l1Current >= latestVerifiedL1Height
           => l1Current' >= latestVerifiedL1Height]_vars

\* A dispatch has set the cursor at or above the height of a verification
\* the Prover has seen.
C12_Witness ==
    /\ latestVerifiedL1Height > GenesisHeight
    /\ lastHandledBlockID > 0
    /\ l1Current = l1Events[lastHandledBlockID]
    /\ l1Current >= latestVerifiedL1Height

\* C13: a head delivered to the running Driver while the context is not
\* cancelled is followed by the start of a doSync pass, unless the context
\* is cancelled first.
C13_NoMissedFinalSync ==
    (role = "driver" /\ dpc # "created" /\ burst.unsynced)
        ~> (~burst.unsynced \/ cancelled)

\* Heads were delivered while a pass ran and a follow-up pass has started:
\* nothing is queued and no head is left unsynced.
C13_Witness ==
    /\ role = "driver"
    /\ dpc = "doSync"
    /\ burst.phase = "after"
    /\ burst.followUps >= 1
    /\ ~burst.unsynced
    /\ l1HeadCh = 0
    /\ syncNotify = 0

\* C14: each role's event loop runs its passes itself, one at a time: after
\* the eager first pass a doSync pass starts only from the select, by taking
\* the syncNotify token, and a proveOp pass starts only from the select, by
\* taking the proveNotify token.
C14_PassNeedsToken ==
    [][/\ dpc' = "doSync" => dpc \in {"created", "select", "backoff", "doSync"}
       /\ (dpc = "select" /\ dpc' = "doSync")
          => (syncNotify = 1 /\ syncNotify' = 0)
       /\ epc' = "proveOp" => epc \in {"select", "proveOp", "guardSendPropose"}
       /\ (epc = "select" /\ epc' = "proveOp")
          => (proveNotify = 1 /\ proveNotify' = 0)]_vars

\* A proveOp pass runs on the token it took, after an earlier pass that
\* dispatched a block.
C14_Witness ==
    /\ epc = "proveOp"
    /\ proveNotify = 0
    /\ Len(dispatched) >= 1
    /\ iter.next <= lastHandledBlockID

\* C15: once the context is cancelled the oracle retry loop ends: a
\* submission that fails after the cancellation is not retried, its task
\* returns and releases its submitProofConcurrencyGuard token.
C15_NoRetryAfterCancel ==
    [][cancelled =>
           \A id \in DOMAIN tasks :
               tasks[id].pc = "tx" =>
                   \/ id \notin DOMAIN tasks'
                   \/ tasks'[id].pc = "tx"]_vars

\* Block id is on L1 in the range a replay from l1Current covers, is above
\* lastHandledBlockID and passes the parity filter of the configuration.
AwaitsDispatch(id) ==
    /\ role = "prover"
    /\ epc \notin {"new", "initRetry", "created"}
    /\ id <= NumProposed
    /\ id > lastHandledBlockID
    /\ l1Events[id] >= l1Current
    /\ cfg.even => id % 2 = 0
    /\ cfg.odd => id % 2 = 1

C17_PendingProofsFirst ==
    [][( /\ OnBlockProposed
         /\ (proveValidProofCh # <<>> \/ proveInvalidProofCh # <<>>) )
       => /\ iter' = NoIter
          /\ epc' = "select"
          /\ UNCHANGED <<workers, proposeConcurrencyGuard, dispatched,
                         l1Current, lastHandledBlockID>>]_vars

\* The iterator is about to call onBlockProposed with an event that would
\* be dispatched (new id, parity unrestricted, guard with room) while an
\* invalid-block proof waits in its channel.
C17_Witness ==
    /\ epc = "proveOp"
    /\ proveValidProofCh = <<>>
    /\ proveInvalidProofCh # <<>>
    /\ iter.next > lastHandledBlockID
    /\ ~cfg.even
    /\ ~cfg.odd
    /\ proposeConcurrencyGuard < MaxConcurrentProvingJobs

\* C18: a worker that gets as far as RequestProof calls it on one
\* submitter, the valid one iff the hint is HintOK, and returns; a proof
\* taken from proveValidProofCh is submitted as valid, one taken from
\* proveInvalidProofCh as invalid.
C18_SubmitterRouting ==
    [][/\ \A id \in Blocks, hintOK \in BOOLEAN :
              (WorkerRequestsProof(id, hintOK) \/ WorkerRequestFails(id, hintOK))
              => /\ id \in workers /\ id \notin workers'
                 /\ hintOK => /\ requested'.valid = id
                              /\ requested'.invalid = requested.invalid
                 /\ ~hintOK => /\ requested'.invalid = id
                               /\ requested'.valid = requested.valid
       /\ requested' # requested => \E id \in workers : id \notin workers'
       /\ SelectValidProof
          => LET id == Head(proveValidProofCh)
             IN  IF id \in DOMAIN tasks'
                 THEN tasks'[id].isValid
                 ELSE pendingProof' = [id |-> id, isValid |-> TRUE]
       /\ SelectInvalidProof
          => LET id == Head(proveInvalidProofCh)
             IN  IF id \in DOMAIN tasks'
                 THEN ~tasks'[id].isValid
                 ELSE pendingProof' = [id |-> id, isValid |-> FALSE]
       /\ GuardSendSubmitProceeds
          => tasks'[pendingProof.id].isValid = pendingProof.isValid]_vars

\* Block 1 went to the valid submitter and block 2 to the invalid one, and
\* both proofs are in submission on their own side.
C18_Witness ==
    /\ requested = [valid |-> 1, invalid |-> 2]
    /\ DOMAIN tasks = {1, 2}
    /\ tasks[1].isValid
    /\ ~tasks[2].isValid


\* C19: the guard holds one token per live worker, so none when no worker
\* is live; a worker that exits, on any path, takes exactly one token out of
\* a guard that holds one, and nothing else takes tokens out.
C19_GuardTokenPerWorker ==
    /\ [](proposeConcurrencyGuard = Cardinality(workers))
    /\ [][/\ \A id \in workers :
                 id \notin workers'
                 => /\ proposeConcurrencyGuard >= 1
                    /\ proposeConcurrencyGuard' = proposeConcurrencyGuard - 1
                    /\ workers' = workers \ {id}
          /\ proposeConcurrencyGuard' < proposeConcurrencyGuard
             => \E id \in workers : id \notin workers']_vars

\* Three workers were spawned and all have returned: one after a request to
\* the valid submitter, one after a request to the invalid submitter, one
\* before any request; the guard is empty again.
C19_Witness ==
    /\ Len(dispatched) = 3
    /\ requested = [valid |-> 1, invalid |-> 2]
    /\ workers = {}
    /\ proposeConcurrencyGuard = 0


\* The steps of the per-event workers and of the submission tasks.
WorkerOrTaskStep ==
    \E id \in Blocks :
        \/ WorkerReturnsEarly(id)
        \/ \E hintOK \in BOOLEAN : WorkerRequestsProof(id, hintOK)
        \/ \E hintOK \in BOOLEAN : WorkerRequestFails(id, hintOK)
        \/ TaskLocksMutex(id)
        \/ TaskSubmitSucceeds(id)
        \/ TaskSubmitFails(id)

\* C20: worker steps and submission-task steps leave l1Current,
\* lastHandledBlockID and latestVerifiedL1Height unchanged; onBlockVerified
\* changes only latestVerifiedL1Height; l1Current changes only in
\* InitFromConfig before Start or in the event loop's onBlockProposed,
\* lastHandledBlockID only in onBlockProposed, latestVerifiedL1Height only in
\* onBlockVerified.
C20_SingleWriter ==
    [][/\ WorkerOrTaskStep
          => UNCHANGED <<l1Current, lastHandledBlockID, latestVerifiedL1Height>>
       /\ SelectBlockVerified => UNCHANGED <<l1Current, lastHandledBlockID>>
       /\ l1Current' # l1Current
          => \/ epc \in {"new", "initRetry"} /\ epc' = "created"
             \/ /\ epc \in {"proveOp", "guardSendPropose"}
                /\ l1Current' = l1Events[lastHandledBlockID']
                /\ workers \subseteq workers' /\ tasks' = tasks
       /\ lastHandledBlockID' # lastHandledBlockID
          => /\ epc \in {"proveOp", "guardSendPropose"}
             /\ workers \subseteq workers' /\ tasks' = tasks
       /\ latestVerifiedL1Height' # latestVerifiedL1Height
          => /\ epc = "select" /\ epc' = "select"
             /\ blockVerifiedCh # <<>>
             /\ blockVerifiedCh' = Tail(blockVerifiedCh)
             /\ workers' = workers /\ tasks' = tasks]_vars

\* onBlockVerified has recorded a height while the cursor stands at a
\* dispatched event, a worker is live and a submission task is in its
\* transaction.
C20_Witness ==
    /\ latestVerifiedL1Height > GenesisHeight
    /\ lastHandledBlockID >= 2
    /\ l1Current = l1Events[lastHandledBlockID]
    /\ workers # {}
    /\ \E id \in DOMAIN tasks : tasks[id].pc = "tx"
    /\ blockVerifiedCh = <<>>


\* C21: a successful initL1Current leaves in l1Current the genesis height
\* when no starting id is configured and nothing is verified, the L1 origin
\* height of the latest verified id when no starting id is configured and
\* something is verified, and the L1 origin height of the configured id
\* otherwise; a failed initL1Current leaves l1Current as it was and is
\* retried.
C21_InitL1Current ==
    [][/\ \A s \in 0..NumProposed :
              InitFromConfig(s)
              => /\ (s = 0 /\ latestVerifiedId = 0) => l1Current' = GenesisHeight
                 /\ (s = 0 /\ latestVerifiedId > 0)
                    => l1Current' = l1Events[latestVerifiedId]
                 /\ s > 0 => l1Current' = l1Events[s]
       /\ InitL1CurrentFails
          => /\ l1Current' = l1Current
             /\ epc' = "initRetry"]_vars

\* The Prover was made with a verified block on the chain, and the cursor
\* stands at that block's L1 origin height, above genesis and below the L1
\* head.
C21_Witness ==
    /\ role = "prover"
    /\ epc = "created"
    /\ latestVerifiedId > 0
    /\ l1Current = l1Events[latestVerifiedId]
    /\ l1Current > GenesisHeight
    /\ l1Current < L1HeadHeight


\* C22: once the context is cancelled, the status reporter and the event
\* loop of a started Driver exit and Close() returns.
C22_DriverCloseReturnsAfterCancel ==
    (role = "driver" /\ cancelled /\ dpc # "created")
        ~> (dpc = "exit" /\ spc = "exit" /\ driverClosePc = "returned")


\* C23 (as stated): every proposal event with id > lastHandledBlockID has
\* an L1 height >= l1Current.
C23_NoUndispatchedBelowCursor ==
    role = "prover"
    => \A id \in 1..NumProposed :
           id > lastHandledBlockID => l1Events[id] >= l1Current

\* C23 (amended): once an event has been dispatched, every proposal event
\* with id > lastHandledBlockID has an L1 height >= l1Current; before the
\* first dispatch the only events below l1Current are older than a block
\* whose L1 origin height the cursor was initialised to.
C23_CursorCoversUndispatched ==
    role = "prover"
    => \A id \in 1..NumProposed :
           (id > lastHandledBlockID /\ l1Events[id] < l1Current)
           => /\ lastHandledBlockID = 0
              /\ dispatched = <<>>
              /\ \E o \in 1..NumProposed : o > id /\ l1Current = l1Events[o]

\* Block 1 was dispatched and the replay was cut short with a proof pending:
\* block 2, in the same L1 block as block 1, and block 3 are still to be
\* dispatched and the cursor stands at the L1 block of blocks 1 and 2.
C23_Witness ==
    /\ dispatched = <<1>>
    /\ lastHandledBlockID = 1
    /\ NumProposed = 3
    /\ l1Events[2] = l1Events[1]
    /\ l1Current = l1Events[1]
    /\ epc = "select"
    /\ iter = NoIter
    /\ ProofsPending

==========================================================================
